---- MODULE Spec2Model ----
(***************************************************************************)
(* Model of src/lambda/app.py: the scheduled job that walks the GitHub     *)
(* organizations -> repositories -> branches of the authenticated user,    *)
(* collects every non-main branch with its staleness, and mails a report.  *)
(*                                                                         *)
(* lambda_handler is modelled as a sequential state machine whose position *)
(* is pc; one action per external call or loop step.  The collaborators    *)
(* (Secrets Manager, the GitHub API seen through PyGithub, SES) are the    *)
(* environment: each call returns one of the values it can return or       *)
(* raises.  A listing (get_orgs, get_repos, get_branches) is one logical   *)
(* API call whose items are consumed lazily by the for loop, so the loop   *)
(* header itself can raise after some items were already delivered.        *)
(***************************************************************************)
EXTENDS Integers, Sequences, FiniteSets, TLC

\* ------------------------------------------------------------------ bounds
\* organizations, repositories and branches the listings yield in one run,
\* all together
MaxEntities == 6
\* per-entity failures (organization, repository, branch level) in one run
MaxFailures == 2
\* |resetAt - now| explored for check_rate_limit, in seconds
MaxSkew == 12

\* ------------------------------------------------------- program constants
RATE_LIMIT_BUFFER == 100
SLEEP_BUFFER == 10
STALE_SECONDS == 72 * 3600
MAIN == "main"

\* ---------------------------------------------------------------- helpers
None == "None"

\* Names in the order the API yields them (not sorted), and Python's string
\* order of the same names, which sorted() uses.
OrgPool == <<"z", "a", "org_name_with_length", "zz", "b", "y", "c", "x">>
OrgOrder == <<"a", "b", "c", "org_name_with_length", "x", "y", "z", "zz">>
RepoPool == <<"r2", "r1", "r3", "r5", "r4", "r7", "r6", "r0">>
RepoOrder == <<"r0", "r1", "r2", "r3", "r4", "r5", "r6", "r7">>
BranchPool == <<"main-ish", "dev", "test", "feature/x", "a", "z", "fix", "wip">>
BranchOrder == <<"a", "dev", "feature/x", "fix", "main", "main-ish", "test", "wip", "z">>

\* the next name a listing yields: the first of the pool not yet yielded
NextOf(pool, yielded) ==
    {pool[i] : i \in {j \in 1..Len(pool) :
                        /\ pool[j] \notin yielded
                        /\ \A k \in 1..(j - 1) : pool[k] \in yielded}}

\* dict operations
EmptyDict == <<>>
DictSet(d, k, v) == [x \in (DOMAIN d) \cup {k} |-> IF x = k THEN v ELSE d[x]]
Truthy(d) == DOMAIN d /= {}

\* sorted(d.items()): the keys of d in string order
SortedKeys(d, order) == SelectSeq(order, LAMBDA k : k \in DOMAIN d)

RECURSIVE SortedByBranchFrom(_, _)
SortedByBranchFrom(recs, i) ==
    IF i > Len(BranchOrder) THEN <<>>
    ELSE SelectSeq(recs, LAMBDA r : r.branch = BranchOrder[i])
         \o SortedByBranchFrom(recs, i + 1)
\* sorted(branches, key=lambda x: x['branch']): stable, by branch name
SortedByBranch(recs) == SortedByBranchFrom(recs, 1)

RECURSIVE Flatten(_)
Flatten(ss) == IF ss = <<>> THEN <<>> ELSE Head(ss) \o Flatten(Tail(ss))

\* sep.join(lines): the lines with sep between each two neighbours
RECURSIVE Join(_, _)
Join(sep, lines) ==
    IF lines = <<>> THEN <<>>
    ELSE IF Len(lines) = 1 THEN <<lines[1]>>
    ELSE <<lines[1], sep>> \o Join(sep, Tail(lines))

\* ------------------------------------------------------------------ state
VARIABLES
    pc,               \* position in lambda_handler (or in check_rate_limit)
    environ,          \* os.environ: the configuration variables that are set
    orgs,             \* iterator over get_orgs(): [yielded, exhausted]
    repos,            \* iterator over org.get_repos(): names yielded so far
    branches,         \* iterator over repo.get_branches(): names yielded so far
    org, repo, branch,\* loop variables
    branches_by_org,  \* dict org -> dict repo -> list of {branch, stale}
    repo_count,
    text_body, html_body,
    send_log,         \* outcome of every ses.send_email call, in order
    result,           \* what lambda_handler returned
    org_log,          \* history: org -> what happened to it
    repo_log,         \* history: <<org, repo>> -> what happened to it
    branch_log,       \* history: <<org, repo, branch>> -> [status, age]
    fatal,            \* history: where a setup/listing/delivery failure occurred
    last_call,        \* history: the latest GitHub call that returned
    rate_limit,       \* get_rate_limit().core: [remaining, reset]
    clock,            \* time.time()
    slept             \* seconds spent in time.sleep by check_rate_limit

loopvars == <<orgs, repos, branches, org, repo, branch>>
datavars == <<branches_by_org, repo_count>>
mailvars == <<text_body, html_body, send_log>>
histvars == <<org_log, repo_log, branch_log, fatal>>
ratevars == <<rate_limit, clock, slept>>
vars == <<pc, environ, loopvars, datavars, mailvars, result, histvars,
          last_call, ratevars>>

\* the per-entity failures so far, read off the history
FailedOrgs == {o \in DOMAIN org_log : org_log[o] \in {"rate_check_failed", "listing_failed"}}
FailedRepos == {k \in DOMAIN repo_log : repo_log[k] \in {"rate_check_failed", "listing_failed"}}
FailedBranches ==
    {k \in DOMAIN branch_log : branch_log[k].status \in {"rate_check_failed", "commit_failed"}}
Failures == Cardinality(FailedOrgs) + Cardinality(FailedRepos) + Cardinality(FailedBranches)
MayFail == Failures < MaxFailures

\* the entities the listings yielded so far
Entities ==
    Cardinality(DOMAIN org_log) + Cardinality(DOMAIN repo_log)
    + Cardinality(DOMAIN branch_log)
MayYield == Entities < MaxEntities

EnvVars == <<"GITHUB_SECRET_NAME", "SENDER_EMAIL", "RECIPIENT_EMAIL">>
EnvNames == {EnvVars[i] : i \in 1..Len(EnvVars)}

Response(code, body) == [statusCode |-> code, body |-> body]
ErrorBody(e) == <<"Error: ", e>>
SuccessBody == <<"Successfully processed and sent email">>
NoResult == Response(0, <<>>)

HandlerInit ==
    /\ orgs = [yielded |-> {}, exhausted |-> FALSE]
    /\ repos = {}
    /\ branches = {}
    /\ org = None /\ repo = None /\ branch = None
    /\ branches_by_org = EmptyDict
    /\ repo_count = 0
    /\ text_body = <<>> /\ html_body = <<>>
    /\ send_log = <<>>
    /\ result = NoResult
    /\ org_log = EmptyDict /\ repo_log = EmptyDict /\ branch_log = EmptyDict
    /\ fatal = None
    /\ last_call = None

Init ==
    /\ pc = "environ"
    /\ environ \in SUBSET EnvNames
    /\ HandlerInit
    /\ rate_limit = [remaining |-> 5000, reset |-> 0]
    /\ clock = 0
    /\ slept = 0

\* ---------------------------------------------------------- lambda_handler
\* except Exception as e (top level): return statusCode 500, 'Error: ' + str(e)
TopLevelExcept(e) ==
    /\ pc' = "done"
    /\ result' = Response(500, ErrorBody(e))

\* os.environ[...] for the three variables, in order; a missing one is a KeyError
Environ ==
    /\ pc = "environ"
    /\ IF EnvNames \subseteq environ
       THEN /\ pc' = "get_secret"
            /\ UNCHANGED <<result, fatal>>
       ELSE LET i == CHOOSE j \in 1..Len(EnvVars) :
                        /\ EnvVars[j] \notin environ
                        /\ \A k \in 1..(j - 1) : EnvVars[k] \in environ
            IN  /\ TopLevelExcept(EnvVars[i])
                /\ fatal' = "environ"
    /\ UNCHANGED <<environ, loopvars, datavars, mailvars, org_log, repo_log,
                   branch_log, last_call, ratevars>>

\* get_secret(...) then secrets['github_token']; Github(token) makes no request
GetSecret ==
    /\ pc = "get_secret"
    /\ \E outcome \in {"ok", "ClientError", "github_token"} :
         IF outcome = "ok"
         THEN /\ pc' = "check_orgs"
              /\ UNCHANGED <<result, fatal>>
         ELSE /\ TopLevelExcept(outcome)
              /\ fatal' = "get_secret"
    /\ UNCHANGED <<environ, loopvars, datavars, mailvars, org_log, repo_log,
                   branch_log, last_call, ratevars>>

\* check_rate_limit(g) as lambda_handler sees it: it returns (after any sleep)
\* or get_rate_limit() raises.  The sleep itself is CheckRateLimit below.
RateChecked == last_call' = "check_rate_limit"

\* line 187, inside the try whose handler re-raises
CheckOrgs ==
    /\ pc = "check_orgs"
    /\ \/ /\ RateChecked
          /\ pc' = "get_orgs"
          /\ UNCHANGED <<result, fatal>>
       \/ /\ TopLevelExcept("GithubException")
          /\ fatal' = "check_rate_limit"
          /\ UNCHANGED last_call
    /\ UNCHANGED <<environ, loopvars, datavars, mailvars, org_log, repo_log,
                   branch_log, ratevars>>

\* line 189: g.get_user().get_orgs(); on failure log and raise e
GetOrgs ==
    /\ pc = "get_orgs"
    /\ \/ /\ last_call' = "get_orgs"
          /\ pc' = "for_org"
          /\ UNCHANGED <<result, fatal>>
       \/ /\ TopLevelExcept("GithubException")
          /\ fatal' = "get_orgs"
          /\ UNCHANGED last_call
    /\ UNCHANGED <<environ, loopvars, datavars, mailvars, org_log, repo_log,
                   branch_log, ratevars>>

\* variant in which the broken listing is logged and the report still goes out
OrgListingSwallowed ==
    /\ fatal' = "for_org"
    /\ pc' = "format"
    /\ UNCHANGED result

\* the listing of line 194 raises: nothing catches it before line 275
OrgListingRaises ==
    /\ fatal' = "for_org"
    /\ TopLevelExcept("GithubException")

\* line 194: for org in orgs.  The loop header is outside every inner try, so
\* a listing that breaks off here reaches the top-level handler.
ForOrg ==
    /\ pc = "for_org"
    /\ \/ \E o \in NextOf(OrgPool, orgs.yielded) :
            /\ MayYield
            /\ org' = o
            /\ orgs' = [orgs EXCEPT !.yielded = @ \cup {o}]
            /\ org_log' = DictSet(org_log, o, "yielded")
            /\ pc' = "check_org"
            /\ UNCHANGED <<result, fatal>>
       \/ /\ orgs' = [orgs EXCEPT !.exhausted = TRUE]
          /\ pc' = "format"
          /\ UNCHANGED <<org, org_log, result, fatal>>
       \/ /\ OrgListingRaises
          /\ UNCHANGED <<org, orgs, org_log>>
    /\ UNCHANGED <<environ, repos, branches, repo, branch, datavars, mailvars,
                   repo_log, branch_log, last_call, ratevars>>

\* lines 196-198; except (line 225): log, go on with the next organization
CheckOrg ==
    /\ pc = "check_org"
    /\ \/ /\ RateChecked
          /\ branches_by_org' = DictSet(branches_by_org, org, EmptyDict)
          /\ org_log' = DictSet(org_log, org, "processing")
          /\ pc' = "get_repos"
       \/ /\ MayFail
          /\ org_log' = DictSet(org_log, org, "rate_check_failed")
          /\ pc' = "for_org"
          /\ UNCHANGED <<branches_by_org, last_call>>
    /\ UNCHANGED <<environ, loopvars, repo_count, mailvars, result, repo_log,
                   branch_log, fatal, ratevars>>

\* line 199: org.get_repos(), the listing the for loop consumes
GetRepos ==
    /\ pc = "get_repos"
    /\ \/ /\ last_call' = "get_repos"
          /\ repos' = {}
          /\ pc' = "for_repo"
          /\ UNCHANGED org_log
       \/ /\ MayFail
          /\ org_log' = DictSet(org_log, org, "listing_failed")
          /\ pc' = "for_org"
          /\ UNCHANGED <<repos, last_call>>
    /\ UNCHANGED <<environ, orgs, branches, org, repo, branch, datavars,
                   mailvars, result, repo_log, branch_log, fatal, ratevars>>

\* line 199: for repo in ...; a failure here is caught at line 225
ForRepo ==
    /\ pc = "for_repo"
    /\ \/ \E r \in NextOf(RepoPool, repos) :
            /\ MayYield
            /\ repo' = r
            /\ repos' = repos \cup {r}
            /\ repo_log' = DictSet(repo_log, <<org, r>>, "yielded")
            /\ pc' = "check_repo"
            /\ UNCHANGED org_log
       \/ /\ org_log' = DictSet(org_log, org, "done")
          /\ pc' = "for_org"
          /\ UNCHANGED <<repo, repos, repo_log>>
       \/ /\ MayFail
          /\ org_log' = DictSet(org_log, org, "listing_failed")
          /\ pc' = "for_org"
          /\ UNCHANGED <<repo, repos, repo_log>>
    /\ UNCHANGED <<environ, orgs, branches, org, branch, datavars, mailvars,
                   result, branch_log, fatal, last_call, ratevars>>

\* variant with repo_count += 1 placed before check_rate_limit
CheckRepoCountedFirst ==
    /\ pc = "check_repo"
    /\ repo_count' = repo_count + 1
    /\ \/ /\ RateChecked
          /\ repo_log' = DictSet(repo_log, <<org, repo>>, "processing")
          /\ pc' = "get_branches"
       \/ /\ MayFail
          /\ repo_log' = DictSet(repo_log, <<org, repo>>, "rate_check_failed")
          /\ pc' = "for_repo"
          /\ UNCHANGED last_call
    /\ UNCHANGED <<environ, loopvars, branches_by_org, mailvars, result,
                   org_log, branch_log, fatal, ratevars>>

\* lines 201-203; except (line 223): log, go on with the next repository
CheckRepo ==
    /\ pc = "check_repo"
    /\ \/ /\ RateChecked
          /\ repo_count' = repo_count + 1
          /\ repo_log' = DictSet(repo_log, <<org, repo>>, "processing")
          /\ pc' = "get_branches"
       \/ /\ MayFail
          /\ repo_log' = DictSet(repo_log, <<org, repo>>, "rate_check_failed")
          /\ pc' = "for_repo"
          /\ UNCHANGED <<repo_count, last_call>>
    /\ UNCHANGED <<environ, loopvars, branches_by_org, mailvars, result,
                   org_log, branch_log, fatal, ratevars>>

\* line 204: repo.get_branches()
GetBranches ==
    /\ pc = "get_branches"
    /\ \/ /\ last_call' = "get_branches"
          /\ branches' = {}
          /\ pc' = "for_branch"
          /\ UNCHANGED repo_log
       \/ /\ MayFail
          /\ repo_log' = DictSet(repo_log, <<org, repo>>, "listing_failed")
          /\ pc' = "for_repo"
          /\ UNCHANGED <<branches, last_call>>
    /\ UNCHANGED <<environ, orgs, repos, org, repo, branch, datavars, mailvars,
                   result, org_log, branch_log, fatal, ratevars>>

\* variant without the filter: every branch is taken
IsNonMainUnfiltered(name) == TRUE

\* line 206: if branch.name != 'main'

IsNonMain(name) == name /= MAIN

BranchEntry(status, age) == [status |-> status, age |-> age]

\* lines 205-206: for branch in branches; a failure is caught at line 223
ForBranch ==
    /\ pc = "for_branch"
    /\ \/ \E b \in (NextOf(BranchPool, branches) \cup {MAIN}) \ branches :
            /\ MayYield
            /\ branch' = b
            /\ branches' = branches \cup {b}
            /\ IF IsNonMain(b)
               THEN /\ branch_log' = DictSet(branch_log, <<org, repo, b>>,
                                             BranchEntry("yielded", -1))
                    /\ pc' = "check_branch"
               ELSE /\ branch_log' = DictSet(branch_log, <<org, repo, b>>,
                                             BranchEntry("skipped", -1))
                    /\ pc' = "for_branch"
            /\ UNCHANGED repo_log
       \/ /\ repo_log' = DictSet(repo_log, <<org, repo>>, "done")
          /\ pc' = "for_repo"
          /\ UNCHANGED <<branch, branches, branch_log>>
       \/ /\ MayFail
          /\ repo_log' = DictSet(repo_log, <<org, repo>>, "listing_failed")
          /\ pc' = "for_repo"
          /\ UNCHANGED <<branch, branches, branch_log>>
    /\ UNCHANGED <<environ, orgs, repos, org, repo, datavars, mailvars, result,
                   org_log, fatal, last_call, ratevars>>

\* variant that fetches the commit without checking the rate limit
CheckBranchSkipped ==
    /\ pc = "check_branch"
    /\ pc' = "get_commit"
    /\ UNCHANGED <<environ, loopvars, datavars, mailvars, result, histvars,
                   last_call, ratevars>>

\* line 208; except (line 221): log, go on with the next branch
CheckBranch ==
    /\ pc = "check_branch"
    /\ \/ /\ RateChecked
          /\ pc' = "get_commit"
          /\ UNCHANGED branch_log
       \/ /\ MayFail
          /\ branch_log' = DictSet(branch_log, <<org, repo, branch>>,
                                   BranchEntry("rate_check_failed", -1))
          /\ pc' = "for_branch"
          /\ UNCHANGED last_call
    /\ UNCHANGED <<environ, loopvars, datavars, mailvars, result, org_log,
                   repo_log, fatal, ratevars>>

\* variant with the boundary included
IsStaleInclusive(now, commit_date) == now - commit_date >= STALE_SECONDS

\* lines 213-214: age_seconds > 72 * 3600

IsStale(now, commit_date) == now - commit_date > STALE_SECONDS

\* committer dates offered by the API, around the 72 hour boundary
CommitDates(now) ==
    {now - (STALE_SECONDS + 1), now - STALE_SECONDS, now - (STALE_SECONDS - 60)}

\* lines 215-220: setdefault the repository's list, append the record
Append_record(bbo, o, r, rec) ==
    LET old == IF r \in DOMAIN bbo[o] THEN bbo[o][r] ELSE <<>>
    IN  DictSet(bbo, o, DictSet(bbo[o], r, Append(old, rec)))

\* variant without the inner try: a failed fetch is caught at line 223 and
\* ends the repository
GetCommitUncaught ==
    /\ pc = "get_commit"
    /\ \/ \E commit_date \in CommitDates(clock) :
            /\ last_call' = "get_commit"
            /\ branches_by_org' =
                 Append_record(branches_by_org, org, repo,
                               [branch |-> branch,
                                stale |-> IsStale(clock, commit_date)])
            /\ branch_log' = DictSet(branch_log, <<org, repo, branch>>,
                                     BranchEntry("recorded", clock - commit_date))
            /\ pc' = "for_branch"
       \/ /\ MayFail
          /\ branch_log' = DictSet(branch_log, <<org, repo, branch>>,
                                   BranchEntry("commit_failed", -1))
          /\ pc' = "for_repo"
          /\ UNCHANGED <<branches_by_org, last_call>>
    /\ UNCHANGED <<environ, loopvars, repo_count, mailvars, result, org_log,
                   repo_log, fatal, ratevars>>

\* lines 210-220; except (line 221): log, go on with the next branch
GetCommit ==
    /\ pc = "get_commit"
    /\ \/ \E commit_date \in CommitDates(clock) :
            /\ last_call' = "get_commit"
            /\ branches_by_org' =
                 Append_record(branches_by_org, org, repo,
                               [branch |-> branch,
                                stale |-> IsStale(clock, commit_date)])
            /\ branch_log' = DictSet(branch_log, <<org, repo, branch>>,
                                     BranchEntry("recorded", clock - commit_date))
       \/ /\ MayFail
          /\ branch_log' = DictSet(branch_log, <<org, repo, branch>>,
                                   BranchEntry("commit_failed", -1))
          /\ UNCHANGED <<branches_by_org, last_call>>
    /\ pc' = "for_branch"
    /\ UNCHANGED <<environ, loopvars, repo_count, mailvars, result, org_log,
                   repo_log, fatal, ratevars>>

\* ------------------------------------------------------------- the report
\* A body is a sequence of pieces; a piece stands for one formatted string.
\*   text "found_header" : "Non-main branches found as of <ts>:\n\n" "\n"
\*   text "none_found"   : "No non-main branches found as of <ts>.\n\n"
\*   text "nl_total"     : "\nTotal repositories processed: <n>"
\*   text "total"        : "Total repositories processed: <n>"
TextPiece(kind, indent, name, flag, n) ==
    [kind |-> kind, indent |-> indent, name |-> name, flag |-> flag, n |-> n]
HtmlPiece(kind, tag, name, flag, n) ==
    [kind |-> kind, tag |-> tag, name |-> name, flag |-> flag, n |-> n]

YN(stale) == IF stale THEN "Y" ELSE "N"

\* lines 231-245: text_lines
TextRepoLines(repo_name, recs) ==
    LET bs == SortedByBranch(recs)
    IN  <<TextPiece("repo", 4, repo_name, "", 0)>>
        \o [i \in 1..Len(bs) |->
              TextPiece("branch", 8, bs[i].branch, YN(bs[i].stale), 0)]

TextOrgLines(org_name, rs) ==
    IF Truthy(rs)
    THEN LET names == SortedKeys(rs, RepoOrder)
         IN  <<TextPiece("org", 0, org_name, "", 0)>>
             \o Flatten([i \in 1..Len(names) |->
                           TextRepoLines(names[i], rs[names[i]])])
    ELSE <<>>

text_lines(bbo, count) ==
    LET names == SortedKeys(bbo, OrgOrder)
    IN  Flatten([i \in 1..Len(names) |-> TextOrgLines(names[i], bbo[names[i]])])
        \o <<TextPiece("nl_total", 0, "", "", count)>>

\* lines 232-247: html_lines
HtmlRepoLines(repo_name, recs) ==
    LET bs == SortedByBranch(recs)
    IN  <<HtmlPiece("repo", "p margin-left: 20px", repo_name, "", 0)>>
        \o [i \in 1..Len(bs) |->
              HtmlPiece("branch", "p margin-left: 40px", bs[i].branch,
                        YN(bs[i].stale), 0)]

HtmlOrgLines(org_name, rs) ==
    IF Truthy(rs)
    THEN LET names == SortedKeys(rs, RepoOrder)
         IN  <<HtmlPiece("org", "h3", org_name, "", 0)>>
             \o Flatten([i \in 1..Len(names) |->
                           HtmlRepoLines(names[i], rs[names[i]])])
    ELSE <<>>

html_lines(bbo, count) ==
    LET names == SortedKeys(bbo, OrgOrder)
    IN  <<HtmlPiece("open", "div", "", "", 0)>>
        \o Flatten([i \in 1..Len(names) |-> HtmlOrgLines(names[i], bbo[names[i]])])
        \o <<HtmlPiece("total", "p", "", "", count),
             HtmlPiece("close", "/div", "", "", 0)>>

\* lines 248-251: the two adjacent literals form ONE string, and .join is
\* called on it: the header text is the separator of the join.
FoundTextBody(bbo, count, ts) ==
    Join(TextPiece("found_header", 0, "", "", ts), text_lines(bbo, count))

\* lines 252-255: here the join is inside the second literal
FoundHtmlBody(bbo, count, ts) ==
    <<HtmlPiece("found_header", "p", "", "", ts)>> \o html_lines(bbo, count)

\* lines 257-260
NoneFoundTextBody(count, ts) ==
    <<TextPiece("none_found", 0, "", "", ts), TextPiece("total", 0, "", "", count)>>

\* lines 261-264
NoneFoundHtmlBody(count, ts) ==
    <<HtmlPiece("none_found", "p", "", "", ts), HtmlPiece("total", "p", "", "", count)>>

\* lines 229-264: if branches_by_org: ... else: ...
Format ==
    /\ pc = "format"
    /\ IF Truthy(branches_by_org)
       THEN /\ text_body' = FoundTextBody(branches_by_org, repo_count, clock)
            /\ html_body' = FoundHtmlBody(branches_by_org, repo_count, clock)
       ELSE /\ text_body' = NoneFoundTextBody(repo_count, clock)
            /\ html_body' = NoneFoundHtmlBody(repo_count, clock)
    /\ pc' = "send_email"
    /\ UNCHANGED <<environ, loopvars, datavars, send_log, result, histvars,
                   last_call, ratevars>>

\* variant that calls ses.send_email again after a failure
SendEmailRetried ==
    /\ pc = "send_email"
    /\ \/ /\ send_log' = Append(send_log, "sent")
          /\ pc' = "done"
          /\ result' = Response(200, SuccessBody)
          /\ UNCHANGED fatal
       \/ /\ send_log' = Append(send_log, "failed")
          /\ fatal' = "send_email"
          /\ UNCHANGED <<pc, result>>
    /\ UNCHANGED <<environ, loopvars, datavars, text_body, html_body, org_log,
                   repo_log, branch_log, last_call, ratevars>>

\* lines 267-273 and send_email (137-155): one ses.send_email call; on failure
\* send_email re-raises and the top-level handler returns 500
SendEmail ==
    /\ pc = "send_email"
    /\ \/ /\ send_log' = Append(send_log, "sent")
          /\ pc' = "done"
          /\ result' = Response(200, SuccessBody)
          /\ UNCHANGED fatal
       \/ /\ send_log' = Append(send_log, "failed")
          /\ TopLevelExcept("ClientError")
          /\ fatal' = "send_email"
    /\ UNCHANGED <<environ, loopvars, datavars, text_body, html_body, org_log,
                   repo_log, branch_log, last_call, ratevars>>

Next ==
    \/ Environ
    \/ GetSecret
    \/ CheckOrgs
    \/ GetOrgs
    \/ ForOrg
    \/ CheckOrg
    \/ GetRepos
    \/ ForRepo
    \/ CheckRepo
    \/ GetBranches
    \/ ForBranch
    \/ CheckBranch
    \/ GetCommit
    \/ Format
    \/ SendEmail

Spec == Init /\ [][Next]_vars

\* -------------------------------------------------------- check_rate_limit
Remainings == {0, 50, RATE_LIMIT_BUFFER - 1, RATE_LIMIT_BUFFER,
               RATE_LIMIT_BUFFER + 1, 5000}
Skews == (-MaxSkew..MaxSkew) \cup {30}
Clocks == {0, 1000}

\* variant that sleeps until the reset only, without the 10 second buffer
sleep_time_no_buffer(remaining, reset, now) ==
    IF remaining < RATE_LIMIT_BUFFER
    THEN LET s == reset - now IN IF s > 0 THEN s ELSE 0
    ELSE 0

\* lines 160-165: the seconds check_rate_limit passes to time.sleep (0: no sleep)
sleep_time(remaining, reset, now) ==
    IF remaining < RATE_LIMIT_BUFFER
    THEN LET s == reset - now + SLEEP_BUFFER IN IF s > 0 THEN s ELSE 0
    ELSE 0

\* lines 157-166, with time.sleep advancing the clock
CheckRateLimit ==
    /\ pc = "check_rate_limit"
    /\ slept' = sleep_time(rate_limit.remaining, rate_limit.reset, clock)
    /\ clock' = clock + slept'
    /\ pc' = "returned"
    /\ UNCHANGED <<environ, loopvars, datavars, mailvars, result, histvars,
                   last_call, rate_limit>>

InitRate ==
    /\ pc = "check_rate_limit"
    /\ environ = EnvNames
    /\ HandlerInit
    /\ clock \in Clocks
    /\ rate_limit \in {[remaining |-> m, reset |-> clock + d] :
                         m \in Remainings, d \in Skews}
    /\ slept = 0

NextRate == CheckRateLimit

SpecRate == InitRate /\ [][NextRate]_vars

\* ================================================================ claims
RecordsOf(o, r) ==
    IF o \in DOMAIN branches_by_org /\ r \in DOMAIN branches_by_org[o]
    THEN branches_by_org[o][r]
    ELSE <<>>

\* how many records of (o, r) carry branch name b
CountOf(o, r, b) ==
    Cardinality({i \in 1..Len(RecordsOf(o, r)) : RecordsOf(o, r)[i].branch = b})

NoRecords ==
    \A o \in DOMAIN branches_by_org :
        \A r \in DOMAIN branches_by_org[o] : branches_by_org[o][r] = <<>>

EnumerationOver == orgs.exhausted
Formatted == pc \in {"send_email", "done"} /\ text_body /= <<>>
StatusOf(k) == branch_log[k].status
Max0(x) == IF x > 0 THEN x ELSE 0

\* C1 (as claimed): when the enumeration collected no non-main branch record,
\* both bodies are the fixed "No non-main branches found as of <ts>." message
\* with the repository count, never the "Non-main branches found" form.
C1_EmptyResultPolicy ==
    (Formatted /\ NoRecords) =>
        /\ text_body = NoneFoundTextBody(repo_count, clock)
        /\ html_body = NoneFoundHtmlBody(repo_count, clock)

\* C2 (as claimed): once the enumeration is over, every non-main branch that a
\* repository's listing yielded has exactly one record under its (org, repo),
\* and no record is named "main".
C2_ExactlyOneRecord ==
    EnumerationOver =>
        \A k \in DOMAIN branch_log :
            CountOf(k[1], k[2], k[3]) = IF k[3] = "main" THEN 0 ELSE 1

\* C2 (amended): a non-main branch that was yielded has exactly one record when
\* its rate-limit check and its HEAD commit fetch both succeeded and no record
\* otherwise; "main" never has a record; every record belongs to a branch the
\* listing of that very repository yielded.
C2_OneRecordPerFetchedBranch ==
    /\ \A k \in DOMAIN branch_log :
          CountOf(k[1], k[2], k[3]) =
              IF k[3] /= "main" /\ StatusOf(k) = "recorded" THEN 1 ELSE 0
    /\ \A o \in DOMAIN branches_by_org : \A r \in DOMAIN branches_by_org[o] :
          \A i \in 1..Len(branches_by_org[o][r]) :
              /\ branches_by_org[o][r][i].branch /= "main"
              /\ <<o, r, branches_by_org[o][r][i].branch>> \in DOMAIN branch_log

\* one repository yielded main, a branch that got its record and a branch
\* whose commit fetch failed
C2_Witness ==
    \E o \in DOMAIN org_log, r \in {k[2] : k \in DOMAIN repo_log} :
        /\ <<o, r, "main">> \in DOMAIN branch_log
        /\ CountOf(o, r, "main") = 0
        /\ \E k \in DOMAIN branch_log :
              k[1] = o /\ k[2] = r /\ StatusOf(k) = "recorded"
              /\ CountOf(o, r, k[3]) = 1
        /\ \E k \in DOMAIN branch_log :
              k[1] = o /\ k[2] = r /\ StatusOf(k) = "commit_failed"

\* C3 (as claimed): at the end of the enumeration repo_count is the number of
\* repositories the listings yielded.
C3_CountsEveryYielded ==
    EnumerationOver => repo_count = Cardinality(DOMAIN repo_log)

\* C3 (amended): repo_count is the number of yielded repositories whose own
\* check_rate_limit call returned, whatever happened to them afterwards (no
\* non-main branch, branch listing failed, records collected).
C3_CountsEveryProcessed ==
    repo_count =
        Cardinality({k \in DOMAIN repo_log :
                       repo_log[k] \in {"processing", "listing_failed", "done"}})

\* three repositories of one organization, the second failed its branch
\* listing, the other two produced records: repo_count = 3
C3_Witness ==
    /\ EnumerationOver
    /\ repo_count = 3
    /\ \E o \in DOMAIN org_log :
          /\ repo_log = (<<o, RepoPool[1]>> :> "done" @@
                         <<o, RepoPool[2]>> :> "listing_failed" @@
                         <<o, RepoPool[3]>> :> "done")
          /\ RecordsOf(o, RepoPool[1]) /= <<>>
          /\ RecordsOf(o, RepoPool[2]) = <<>>
          /\ RecordsOf(o, RepoPool[3]) /= <<>>

\* C4 (as claimed): with remaining < 100 the call sleeps max(0, resetAt - now)
\* + 10 seconds, so at least 10; with remaining >= 100 it does not sleep.
C4_SleepsAtLeastBuffer ==
    pc = "returned" =>
        slept = IF rate_limit.remaining < 100
                THEN Max0(rate_limit.reset - (clock - slept)) + 10
                ELSE 0

\* C4 (amended): with remaining < 100 the call sleeps max(0, resetAt - now + 10)
\* seconds (40 for resetAt = now + 30; less than 10, down to none, when resetAt
\* is in the past); with remaining >= 100 it does not sleep.
C4_SleepsUntilResetPlusBuffer ==
    pc = "returned" =>
        /\ slept = IF rate_limit.remaining < 100
                   THEN Max0(rate_limit.reset - (clock - slept) + 10)
                   ELSE 0
        /\ (rate_limit.remaining = 50 /\ rate_limit.reset = clock - slept + 30)
              => slept = 40

\* quota low and the reset 5 seconds in the past: the call slept 5 seconds
C4_Witness ==
    /\ pc = "returned"
    /\ rate_limit.remaining < 100
    /\ rate_limit.reset = clock - slept - 5
    /\ slept = 5

\* C5: a missing configuration variable, a failed secret retrieval or a failed
\* organization listing ends the run at once, without any send_email call and
\* without a report, with statusCode 500 and the error message in the body.
FatalSetupSites == {"environ", "get_secret", "check_rate_limit", "get_orgs", "for_org"}
ErrorMessages == EnvNames \cup {"ClientError", "github_token", "GithubException"}

C5_FatalFailureNoEmail ==
    /\ (pc /= "environ" /\ ~(EnvNames \subseteq environ)) => fatal = "environ"
    /\ fatal \in FatalSetupSites =>
          /\ pc = "done"
          /\ send_log = <<>>
          /\ text_body = <<>> /\ html_body = <<>>
          /\ result.statusCode = 500
          /\ \E m \in ErrorMessages : result.body = <<"Error: ", m>>

\* the organization listing broke off after an organization had already
\* produced a record
C5_Witness ==
    /\ fatal = "for_org"
    /\ ~NoRecords
    /\ send_log = <<>>
    /\ result.statusCode = 500

\* C6: at most one send attempt per run, made only after the enumeration is
\* over; a run that ends after the enumeration made exactly one; a failed send
\* is not retried and gives 500; 200 is returned only after the send succeeded.
C6_SingleSend ==
    /\ Len(send_log) <= 1
    /\ send_log /= <<>> => (EnumerationOver /\ Formatted /\ pc = "done")
    /\ (pc = "done" /\ EnumerationOver) => Len(send_log) = 1
    /\ send_log = <<"failed">> => result.statusCode = 500
    /\ result.statusCode = 200 => send_log = <<"sent">>

\* the single send failed and the run returned 500
C6_Witness ==
    /\ pc = "done"
    /\ send_log = <<"failed">>
    /\ result = Response(500, ErrorBody("ClientError"))

\* C7 (as claimed): an entity that failed contributes no records at all.
C7_FailedEntityHasNoRecords ==
    /\ \A k \in FailedBranches : CountOf(k[1], k[2], k[3]) = 0
    /\ \A k \in FailedRepos : RecordsOf(k[1], k[2]) = <<>>
    /\ \A o \in FailedOrgs : \A k \in DOMAIN repo_log :
          k[1] = o => RecordsOf(k[1], k[2]) = <<>>

\* C7 (amended): a per-entity failure is caught at its own level and the loop
\* of that level goes on; it never makes the run return 500; a failing branch
\* has no record, a repository or organization whose rate-limit check failed
\* has none either, and what a repository or organization collected before
\* its listing broke off is kept, as are the records of all siblings.
IsolationHolds ==
    /\ (pc = "done" /\ result.statusCode = 500) => fatal /= None
    /\ (pc = "done" /\ send_log = <<>>) => fatal \in FatalSetupSites
    /\ \A k \in DOMAIN branch_log :
          /\ StatusOf(k) = "recorded" => CountOf(k[1], k[2], k[3]) = 1
          /\ k \in FailedBranches => CountOf(k[1], k[2], k[3]) = 0
    /\ \A k \in DOMAIN repo_log :
          repo_log[k] = "rate_check_failed" => RecordsOf(k[1], k[2]) = <<>>
    /\ \A o \in DOMAIN org_log :
          org_log[o] = "rate_check_failed" => o \notin DOMAIN branches_by_org

ResumesAtSibling ==
    /\ FailedBranches' /= FailedBranches =>
          (pc' = "for_branch" /\ branches_by_org' = branches_by_org)
    /\ FailedRepos' /= FailedRepos =>
          (pc' = "for_repo" /\ branches_by_org' = branches_by_org)
    /\ FailedOrgs' /= FailedOrgs =>
          (pc' = "for_org" /\ branches_by_org' = branches_by_org)

C7_FailureIsolation == [][ResumesAtSibling /\ IsolationHolds']_vars

\* three repositories, the second failed its branch listing, the first and the
\* third have their records, and the report was sent
C7_Witness ==
    /\ pc = "done"
    /\ send_log = <<"sent">>
    /\ result.statusCode = 200
    /\ \E o \in DOMAIN org_log :
          /\ <<o, RepoPool[2]>> \in DOMAIN repo_log
          /\ <<o, RepoPool[3]>> \in DOMAIN repo_log
          /\ repo_log[<<o, RepoPool[2]>>] = "listing_failed"
          /\ RecordsOf(o, RepoPool[1]) /= <<>>
          /\ RecordsOf(o, RepoPool[2]) = <<>>
          /\ RecordsOf(o, RepoPool[3]) /= <<>>

\* C8: a record is stale exactly when its HEAD commit is more than 72 hours
\* (259200 seconds) old: 259201 is stale, 259200 and 71 h 59 min are not.
C8_StaleIffOlderThan72h ==
    \A k \in DOMAIN branch_log :
        StatusOf(k) = "recorded" =>
            \A i \in 1..Len(RecordsOf(k[1], k[2])) :
                RecordsOf(k[1], k[2])[i].branch = k[3] =>
                    /\ RecordsOf(k[1], k[2])[i].stale = (branch_log[k].age > 259200)
                    /\ branch_log[k].age = 259201 => RecordsOf(k[1], k[2])[i].stale
                    /\ branch_log[k].age \in {259200, 71 * 3600 + 59 * 60}
                          => ~RecordsOf(k[1], k[2])[i].stale

\* one repository holds a record aged 72 h + 1 s, stale, and a record aged
\* exactly 72 h, not stale
C8_Witness ==
    \E k1 \in DOMAIN branch_log, k2 \in DOMAIN branch_log :
        /\ k1[1] = k2[1] /\ k1[2] = k2[2]
        /\ branch_log[k1].age = 259201
        /\ branch_log[k2].age = 259200
        /\ \E i, j \in 1..Len(RecordsOf(k1[1], k1[2])) :
              /\ RecordsOf(k1[1], k1[2])[i] = [branch |-> k1[3], stale |-> TRUE]
              /\ RecordsOf(k1[1], k1[2])[j] = [branch |-> k2[3], stale |-> FALSE]

\* C9 (as claimed): with at least one record, the plain-text body starts with
\* the header "Non-main branches found as of <ts>:", which occurs nowhere
\* else; then come the report lines (organization unindented, repository
\* indented 4, branch indented 8) and last the total with repo_count.
C9_TextBodyHeaderOnceAtStart ==
    (Formatted /\ ~NoRecords) =>
        /\ text_body[1].kind = "found_header"
        /\ Cardinality({i \in 1..Len(text_body) :
                          text_body[i].kind = "found_header"}) = 1
        /\ \A i \in 2..(Len(text_body) - 1) :
              \/ text_body[i].kind = "org" /\ text_body[i].indent = 0
              \/ text_body[i].kind = "repo" /\ text_body[i].indent = 4
              \/ text_body[i].kind = "branch" /\ text_body[i].indent = 8
        /\ text_body[Len(text_body)].kind = "nl_total"
        /\ text_body[Len(text_body)].n = repo_count

\* C10: whenever the handler is about to list the organizations, list an
\* organization's repositories, list a repository's branches or fetch a
\* branch's HEAD commit, the latest GitHub call before it is a
\* check_rate_limit call of its own that returned.
ApiCallSites == {"get_orgs", "get_repos", "get_branches", "get_commit"}

====
